---- MODULE Spec2Model ----
(***************************************************************************)
(* The simulation core of simple-snake (src/src/lib.rs), a Bevy 0.5 app.   *)
(*                                                                         *)
(* One frame of the Update stage runs each system once, in any order that  *)
(* respects the labels declared in SnakeActionPlugin::build:               *)
(*     move_snake < snake_eat < grow_snake,  snake_eat < spawn_food.       *)
(* update_latest_state and game_over are added without a label or an       *)
(* .after(), so the schedule may place them anywhere.                      *)
(*                                                                         *)
(* Commands (spawn, despawn) are buffered and take effect when the stage   *)
(* ends (ApplyBuffers); resources (LatestState, SnakeSegments,             *)
(* LastTailPosition), components of live entities and events are written   *)
(* at once.  An entity whose spawn is still buffered has an id (it can be  *)
(* pushed to SnakeSegments) but no query sees it.                          *)
(*                                                                         *)
(* Every system except move_snake runs in every frame; move_snake runs in  *)
(* the frames its FixedTimestep criterion allows, at most once per frame   *)
(* (a frame long enough for two timesteps is not modelled).  An event is   *)
(* read by its one reader the next time the reader runs, which is within   *)
(* the two frames the event lives, so each event type is a pending flag.   *)
(*                                                                         *)
(* Entities are modelled by their components: [kind, pos, dir, live,       *)
(* doomed], live = the spawn has been applied, doomed = a despawn is       *)
(* buffered.  segments holds the entities SnakeSegments refers to, in list *)
(* order; others holds every other positioned entity, as a set: entities   *)
(* with equal components are not told apart.                               *)
(***************************************************************************)
EXTENDS Integers, Sequences, FiniteSets

\* ---------------------------------------------------------------- bounds
ArenaW == 3
ArenaH == 2
MaxTicks == 3
MaxKeys == 1
SmallArena == 2

\* The arena of the shipped game, inserted by setup.
ShippedArena == 15
ScenarioTicks == 10

VARIABLES
    arena,      \* Arena(u32, u32)
    latest,     \* LatestState.0, the pending direction
    input,      \* the arrow keys update_latest_state found pressed (SwitchSpec only)
    segments,   \* SnakeSegments.0, as the entities it refers to
    others,     \* the positioned entities SnakeSegments does not refer to
    lastTail,   \* LastTailPosition.0
    tailStale,  \* LastTailPosition.0 was recorded before the last reset
    growthEv,   \* a GrowthEvent grow_snake has not read
    foodEv,     \* a FoodEvent spawn_food has not read
    overEv,     \* a GameOverEvent game_over has not read
    ran,        \* the systems that have run in the current frame
    ticks,      \* movement ticks so far
    tickLimit,  \* movement ticks the run is followed for
    preLen,     \* the list length before the last tick if its head landed on a live food, else 0
    panicked    \* an unwrap() failed

vars == <<arena, latest, input, segments, others, lastTail, tailStale, growthEv, foodEv,
          overEv, ran, ticks, tickLimit, preLen, panicked>>

\* ---------------------------------------------------------------- data
SnakeState == {"Left", "Right", "Down", "Up"}

None == <<>>

get_opposite(snake_state) ==
    CASE snake_state = "Left" -> "Right"
      [] snake_state = "Right" -> "Left"
      [] snake_state = "Down" -> "Up"
      [] snake_state = "Up" -> "Down"

\* A switch that rejects a repeat of the head's direction instead of its reversal.
switch_RejectsSame(self, new_state, compared_to) ==
    IF compared_to # new_state THEN new_state ELSE self

\* LatestState::switch, as the new value of self.0
switch(self, new_state, compared_to) ==
    IF get_opposite(compared_to) # new_state THEN new_state ELSE self

\* impl Sub for Position
Sub(a, b) == <<a[1] - b[1], a[2] - b[2]>>

Entity(kind, pos, dir, live) ==
    [kind |-> kind, pos |-> pos, dir |-> dir, live |-> live, doomed |-> FALSE]

SegmentEntity(pos) == Entity("seg", pos, "None", FALSE)
FoodEntity(pos) == Entity("food", pos, "None", FALSE)
HeadEntity(pos, dir) == Entity("head", pos, dir, FALSE)

Range(s) == {s[i] : i \in 1..Len(s)}

\* What a Query sees: the entities whose spawn has been applied.
LiveEntities == {e \in Range(segments) \cup others : e.live}
LiveHeads == {e \in LiveEntities : e.kind = "head"}
LiveFood == {e \in LiveEntities : e.kind = "food"}

AllSystems == {"update_latest_state", "move_snake", "snake_eat", "grow_snake",
               "spawn_food", "game_over"}

\* SnakeActionPlugin::build: the systems a system is declared to run after.
After(sys) ==
    CASE sys = "snake_eat" -> {"move_snake"}
      [] sys = "grow_snake" -> {"snake_eat"}
      [] sys = "spawn_food" -> {"snake_eat"}
      [] OTHER -> {}

CanRun(sys) == /\ ~panicked
               /\ sys \notin ran
               /\ After(sys) \subseteq ran

Ran(sys) == ran' = ran \cup {sys}

Panic(sys) == /\ panicked' = TRUE
              /\ Ran(sys)

\* ---------------------------------------------------------------- startup
\* spawn_snake: the two entities of a fresh snake, head first.
spawn_snake(a) ==
    LET center == <<a[1] \div 2, a[2] \div 2>>
    IN  <<HeadEntity(center, "Right"), SegmentEntity(Sub(center, <<1, 0>>))>>

Flush(e) == [e EXCEPT !.live = TRUE]

\* The state when the first frame's Update stage begins: setup and spawn_snake
\* have run and the startup stages' commands have been applied.
InitWith(a, limit) ==
    /\ arena = a
    /\ latest = "Right"
    /\ input = {}
    /\ segments = [i \in 1..2 |-> Flush(spawn_snake(a)[i])]
    /\ others = {}
    /\ lastTail = None
    /\ tailStale = FALSE
    /\ growthEv = FALSE
    /\ foodEv = TRUE
    /\ overEv = FALSE
    /\ ran = {}
    /\ ticks = 0
    /\ tickLimit = limit
    /\ preLen = 0
    /\ panicked = FALSE

Init == InitWith(<<ArenaW, ArenaH>>, MaxTicks)

\* ---------------------------------------------------------------- systems
KeyOrder == <<"Left", "Right", "Up", "Down">>

KeySets == {ks \in SUBSET SnakeState : Cardinality(ks) <= MaxKeys}

RECURSIVE SwitchAll(_, _, _, _)
SwitchAll(self, keys, head_state, i) ==
    IF i > Len(KeyOrder) THEN self
    ELSE SwitchAll(IF KeyOrder[i] \in keys
                   THEN switch(self, KeyOrder[i], head_state) ELSE self,
                   keys, head_state, i + 1)

update_latest_state(keys) ==
    /\ CanRun("update_latest_state")
    /\ IF LiveHeads = {}
       THEN /\ Panic("update_latest_state")
            /\ UNCHANGED latest
       ELSE /\ \E head \in LiveHeads : latest' = SwitchAll(latest, keys, head.dir, 1)
            /\ Ran("update_latest_state")
            /\ UNCHANGED panicked
    /\ UNCHANGED <<arena, segments, others, lastTail, tailStale, growthEv, foodEv, overEv,
                   ticks, tickLimit, preLen>>

\* The keyboard is not part of the game's state: the keys are observed only
\* where a property speaks of them (SwitchSpec).
Unobserved(keys) == UNCHANGED input
Observed(keys) == input' = keys

\* A translation with the vertical axis flipped.
Translate_FlippedY(pos, dir) ==
    CASE dir = "Left" -> <<pos[1] - 1, pos[2]>>
      [] dir = "Right" -> <<pos[1] + 1, pos[2]>>
      [] dir = "Down" -> <<pos[1], pos[2] + 1>>
      [] dir = "Up" -> <<pos[1], pos[2] - 1>>

Translate(pos, dir) ==
    CASE dir = "Left" -> <<pos[1] - 1, pos[2]>>
      [] dir = "Right" -> <<pos[1] + 1, pos[2]>>
      [] dir = "Down" -> <<pos[1], pos[2] - 1>>
      [] dir = "Up" -> <<pos[1], pos[2] + 1>>

\* `as u32` of an i32: two's complement, 2^32 = 65536 * 65536.
AsU32(v) == IF v >= 0 THEN v ELSE v + 65536 * 65536

\* A collision test that forgets the snake's own cells.
Collides_BoundsOnly(head_position, segment_positions, a) ==
    \/ head_position[1] < 0
    \/ head_position[2] < 0
    \/ AsU32(head_position[1]) >= a[1]
    \/ AsU32(head_position[2]) >= a[2]

\* A collision test whose upper bounds are off by one.
Collides_OffByOne(head_position, segment_positions, a) ==
    \/ head_position \in Range(segment_positions)
    \/ head_position[1] < 0
    \/ head_position[2] < 0
    \/ AsU32(head_position[1]) > a[1]
    \/ AsU32(head_position[2]) > a[2]

\* A collision test that takes the last column and the last row for the wall.
Collides_BorderIsWall(head_position, segment_positions, a) ==
    \/ head_position \in Range(segment_positions)
    \/ head_position[1] < 0
    \/ head_position[2] < 0
    \/ AsU32(head_position[1]) + 1 >= a[1]
    \/ AsU32(head_position[2]) + 1 >= a[2]

\* The condition under which move_snake sends GameOverEvent.
Collides(head_position, segment_positions, a) ==
    \/ head_position \in Range(segment_positions)
    \/ head_position[1] < 0
    \/ head_position[2] < 0
    \/ AsU32(head_position[1]) >= a[1]
    \/ AsU32(head_position[2]) >= a[2]

\* FixedTimestep::step(0.15) lets move_snake run in this frame.
move_snake ==
    /\ CanRun("move_snake")
    /\ ticks < tickLimit
    /\ ticks' = ticks + 1
    /\ IF LiveHeads = {}
       THEN /\ Ran("move_snake")
            /\ UNCHANGED <<segments, lastTail, tailStale, overEv, preLen, panicked>>
       ELSE IF \E i \in 1..Len(segments) : ~segments[i].live
       THEN /\ Panic("move_snake")
            /\ UNCHANGED <<segments, lastTail, tailStale, overEv, preLen>>
       ELSE LET segment_positions == [i \in 1..Len(segments) |-> segments[i].pos]
                head_position == Translate(segments[1].pos, latest)
            IN  /\ lastTail' = segment_positions[Len(segment_positions)]
                /\ tailStale' = FALSE
                /\ overEv' = (overEv \/ Collides(head_position, segment_positions, arena))
                /\ segments' = [i \in 1..Len(segments) |->
                                  IF i = 1
                                  THEN [segments[1] EXCEPT !.pos = head_position,
                                                           !.dir = latest]
                                  ELSE [segments[i] EXCEPT !.pos = segment_positions[i - 1]]]
                /\ preLen' = IF \E food \in LiveFood : food.pos = head_position
                             THEN Len(segments) ELSE 0
                /\ Ran("move_snake")
                /\ UNCHANGED panicked
    /\ UNCHANGED <<arena, latest, input, others, growthEv, foodEv, tickLimit>>

\* The run criterion of move_snake answers no in this frame.
skip_move ==
    /\ CanRun("move_snake")
    /\ Ran("move_snake")
    /\ UNCHANGED <<arena, latest, input, segments, others, lastTail, tailStale, growthEv,
                   foodEv, overEv, ticks, tickLimit, preLen, panicked>>

snake_eat ==
    /\ CanRun("snake_eat")
    /\ LET eaten == {food \in LiveFood : \E head \in LiveHeads : head.pos = food.pos}
       IN  /\ others' = {IF e \in eaten THEN [e EXCEPT !.doomed = TRUE] ELSE e : e \in others}
           /\ growthEv' = (growthEv \/ eaten # {})
           /\ foodEv' = (foodEv \/ eaten # {})
    /\ Ran("snake_eat")
    /\ UNCHANGED <<arena, latest, input, segments, lastTail, tailStale, overEv, ticks,
                   tickLimit, preLen, panicked>>

grow_snake ==
    /\ CanRun("grow_snake")
    /\ growthEv' = FALSE
    /\ IF ~growthEv
       THEN /\ Ran("grow_snake")
            /\ UNCHANGED <<segments, panicked>>
       ELSE IF lastTail = None
       THEN /\ Panic("grow_snake")
            /\ UNCHANGED segments
       ELSE /\ segments' = Append(segments, SegmentEntity(lastTail))
            /\ Ran("grow_snake")
            /\ UNCHANGED panicked
    /\ UNCHANGED <<arena, latest, input, others, lastTail, tailStale, foodEv, overEv, ticks,
                   tickLimit, preLen>>

\* A choice among all the cells of the arena, the taken ones included.
FreeCells_Unfiltered(a, taken) ==
    {<<x, y>> : x \in 0..(a[1] - 1), y \in 0..(a[2] - 1)}

\* generate_random_position: the cells it chooses among.
FreeCells(a, taken) ==
    {<<x, y>> : x \in 0..(a[1] - 1), y \in 0..(a[2] - 1)} \ taken

AllCells(a) == FreeCells(a, {})

\* spawn_food, with the random choice drawn among `cells`.
spawn_food_in(cells) ==
    /\ CanRun("spawn_food")
    /\ foodEv' = FALSE
    /\ IF ~foodEv
       THEN /\ Ran("spawn_food")
            /\ UNCHANGED <<others, panicked>>
       ELSE LET free == FreeCells(arena, {e.pos : e \in LiveEntities})
            IN  IF free = {}
                THEN /\ Panic("spawn_food")
                     /\ UNCHANGED others
                ELSE /\ \E position \in free \cap cells :
                          others' = others \cup {FoodEntity(position)}
                     /\ Ran("spawn_food")
                     /\ UNCHANGED panicked
    /\ UNCHANGED <<arena, latest, input, segments, lastTail, tailStale, growthEv, overEv,
                   ticks, tickLimit, preLen>>

\* A despawn that also reaches the entities whose spawn is still buffered.
Doom_Buffered(e) == [e EXCEPT !.doomed = TRUE]

\* game_over's despawn of what Query<Entity, With<Position>> returns.
Doom(e) == IF e.live THEN [e EXCEPT !.doomed = TRUE] ELSE e

game_over ==
    /\ CanRun("game_over")
    /\ overEv' = FALSE
    /\ IF ~overEv
       THEN UNCHANGED <<latest, segments, others, foodEv, tailStale>>
       ELSE /\ others' = {Doom(e) : e \in Range(segments) \cup others}
            /\ tailStale' = (lastTail # None)
            /\ latest' = "Right"
            /\ segments' = spawn_snake(arena)
            /\ foodEv' = TRUE
    /\ Ran("game_over")
    /\ UNCHANGED <<arena, input, lastTail, growthEv, ticks, tickLimit, preLen, panicked>>

spawn_food == spawn_food_in(AllCells(arena))

\* The end of the Update stage: the buffered despawns and spawns are applied.
ApplyBuffers ==
    /\ ~panicked
    /\ ran = AllSystems
    /\ ran' = {}
    /\ segments' = [i \in 1..Len(segments) |-> Flush(segments[i])]
    /\ others' = {Flush(e) : e \in {o \in others : ~o.doomed}}
    /\ UNCHANGED <<arena, latest, input, lastTail, tailStale, growthEv, foodEv, overEv, ticks,
                   tickLimit, preLen, panicked>>

Next ==
    \/ \E keys \in KeySets : update_latest_state(keys) /\ Unobserved(keys)
    \/ move_snake
    \/ skip_move
    \/ snake_eat
    \/ grow_snake
    \/ spawn_food
    \/ game_over
    \/ ApplyBuffers

Spec == Init /\ [][Next]_vars

\* The scenario of the shipped 15x15 arena: no key is ever pressed, and the
\* random food never lands on the row the snake travels.
ScenarioInit == InitWith(<<ShippedArena, ShippedArena>>, ScenarioTicks)

OffPath(a) == {c \in AllCells(a) : c[2] # a[2] \div 2}

ScenarioNext ==
    \/ update_latest_state({}) /\ Unobserved({})
    \/ move_snake
    \/ skip_move
    \/ snake_eat
    \/ grow_snake
    \/ spawn_food_in(OffPath(arena))
    \/ game_over
    \/ ApplyBuffers

ScenarioSpec == ScenarioInit /\ [][ScenarioNext]_vars

\* update_latest_state alone, from every pending direction and every head
\* direction, with the pressed keys observed.  The frame ends after it.
SwitchInit ==
    \E pending \in SnakeState, head_state \in SnakeState :
        LET a == <<ArenaW, ArenaH>>
            snake == [i \in 1..2 |-> Flush(spawn_snake(a)[i])]
        IN  /\ arena = a
            /\ latest = pending
            /\ input = {}
            /\ segments = [snake EXCEPT ![1].dir = head_state]
            /\ others = {}
            /\ lastTail = None
            /\ tailStale = FALSE
            /\ growthEv = FALSE
            /\ foodEv = FALSE
            /\ overEv = FALSE
            /\ ran = {}
            /\ ticks = 0
            /\ tickLimit = 0
            /\ preLen = 0
            /\ panicked = FALSE

EndFrame ==
    /\ "update_latest_state" \in ran
    /\ ran' = {}
    /\ UNCHANGED <<arena, latest, input, segments, others, lastTail, tailStale, growthEv,
                   foodEv, overEv, ticks, tickLimit, preLen, panicked>>

SwitchNext ==
    \/ \E keys \in SUBSET SnakeState : update_latest_state(keys) /\ Observed(keys)
    \/ EndFrame

SwitchSpec == SwitchInit /\ [][SwitchNext]_vars

\* The game in an arena small enough for the snake and the food to fill it.
PlacementInit == InitWith(<<SmallArena, SmallArena>>, MaxTicks)

PlacementSpec == PlacementInit /\ [][Next]_vars

\* ---------------------------------------------------------------- properties
\* A step in which move_snake ran to completion on a live snake.
MoveTick ==
    /\ ticks' = ticks + 1
    /\ LiveHeads # {}
    /\ \A i \in 1..Len(segments) : segments[i].live

OutOfArena(pos) ==
    \/ pos[1] < 0
    \/ pos[2] < 0
    \/ pos[1] >= arena[1]
    \/ pos[2] >= arena[2]

\* C1: one run of move_snake on a live snake of N >= 2 segments sets the head's
\* direction to the pending direction, moves the head one cell that way (Left
\* x-1, Right x+1, Up y+1, Down y-1) and moves segment i >= 1 to the cell of
\* segment i-1, on every tick, one that sends GameOverEvent included.
C1_MoveShiftsSnake ==
    [][MoveTick =>
        LET N == Len(segments)
            p == segments[1].pos
            q == segments'[1].pos
        IN  /\ N >= 2
            /\ Len(segments') = N
            /\ segments'[1].dir = latest
            /\ latest = "Left" => q = <<p[1] - 1, p[2]>>
            /\ latest = "Right" => q = <<p[1] + 1, p[2]>>
            /\ latest = "Up" => q = <<p[1], p[2] + 1>>
            /\ latest = "Down" => q = <<p[1], p[2] - 1>>
            /\ \A i \in 2..N : segments'[i].pos = segments[i - 1].pos
            /\ lastTail' = segments[N].pos]_vars

\* A snake of three segments has just run out of the arena: the tick sent
\* GameOverEvent and the body still followed the head.
C1_Witness ==
    /\ overEv
    /\ Len(segments) >= 3
    /\ segments[1].live
    /\ OutOfArena(segments[1].pos)
    /\ segments[3].pos # lastTail

\* C2: a tick whose new head cell is the pre-move cell of any segment of the
\* snake sends GameOverEvent on that tick.
C2_SelfCollisionEndsGame ==
    [][(MoveTick /\ \E i \in 1..Len(segments) : segments'[1].pos = segments[i].pos)
        => overEv']_vars

\* The head has just moved, inside the arena, onto a cell the snake held before
\* the move, and GameOverEvent is pending.
C2_Witness ==
    /\ overEv
    /\ segments[1].live
    /\ ~OutOfArena(segments[1].pos)
    /\ \/ segments[1].pos = lastTail
       \/ \E i \in 2..Len(segments) : segments[i].pos = segments[1].pos

\* C3: a tick whose new head position has x < 0, y < 0, x >= width or
\* y >= height sends GameOverEvent on that tick.
C3_LeavingArenaEndsGame ==
    [][(MoveTick /\ OutOfArena(segments'[1].pos)) => overEv']_vars

\* The head has just left the arena through its right edge.
C3_Witness ==
    /\ overEv
    /\ segments[1].live
    /\ segments[1].pos[1] = arena[1]
    /\ segments[2].pos[1] = arena[1] - 1

OppositePairs == {<<"Left", "Right">>, <<"Right", "Left">>,
                  <<"Up", "Down">>, <<"Down", "Up">>}

\* C4: switch(r, h) leaves the pending direction unchanged when r is the
\* opposite of h and sets it to r otherwise (r = h included); get_opposite is
\* an involution without a fixed point.
C4_SwitchRejectsOnlyReversal ==
    [][/\ \A d \in SnakeState : /\ get_opposite(get_opposite(d)) = d
                                /\ get_opposite(d) # d
                                /\ <<d, get_opposite(d)>> \in OppositePairs
       /\ \A r \in SnakeState :
            ("update_latest_state" \in ran' \ ran /\ input' = {r})
            => latest' = IF <<r, segments[1].dir>> \in OppositePairs
                         THEN latest ELSE r]_vars

\* Left was pressed while the head ran Right and Up was pending: Up stays.
C4_Witness ==
    /\ "update_latest_state" \in ran
    /\ input = {"Left"}
    /\ segments[1].dir = "Right"
    /\ latest = "Up"

\* The states in which every system of the frame has run and the buffered
\* commands are about to be applied.
FrameEnd == ran = AllSystems /\ ~panicked

Center == <<arena[1] \div 2, arena[2] \div 2>>

\* C5: a food spawn_food places lies inside the arena and on no cell of the
\* snake as it stands once the frame's spawns and despawns have taken effect.
C5_FoodOffSnake ==
    FrameEnd =>
        \A food \in others :
            (food.kind = "food" /\ ~food.live) =>
                /\ ~OutOfArena(food.pos)
                /\ \A i \in 1..Len(segments) : segments[i].pos # food.pos

\* C6: when the head moves onto the live food's cell on tick T, then by tick
\* T+1 the segment list is one longer than before tick T and its new last
\* segment is at the cell the tail held before tick T's move.
C6_GrowsByNextTick ==
    [][(ticks' = ticks + 1 /\ preLen > 0) =>
        /\ Len(segments) = preLen + 1
        /\ segments[Len(segments)].pos = lastTail]_vars

\* C7: once game_over has handled a GameOverEvent and the frame's effects are
\* applied, the list has two segments, the head at (width/2, height/2) running
\* Right, the second at (width/2 - 1, height/2), and the pending direction is
\* Right.
C7_ResetIsCanonical ==
    (FrameEnd /\ ~segments[1].live) =>
        /\ Len(segments) = 2
        /\ segments[1].pos = Center
        /\ segments[2].pos = <<Center[1] - 1, Center[2]>>
        /\ segments[1].dir = "Right"
        /\ latest = "Right"

\* C8: at most one food entity is live in every reachable state.
C8_AtMostOneFood == Cardinality(LiveFood) <= 1

\* C9: at the end of a frame with no GameOverEvent awaiting its reset, the
\* segments of the list are on pairwise distinct cells.
C9_SegmentsDistinct ==
    (ran = {} /\ ~overEv /\ ~panicked) =>
        \A i, j \in 1..Len(segments) : i # j => segments[i].pos # segments[j].pos

Runs(sys) == sys \in ran' \ ran

\* C11: within a frame game_over runs after move_snake, snake_eat, grow_snake
\* and spawn_food, which run in the order move_snake, snake_eat, then
\* grow_snake and spawn_food in either order.
C11_GameOverRunsLast ==
    [][/\ Runs("game_over") =>
            {"move_snake", "snake_eat", "grow_snake", "spawn_food"} \subseteq ran
       /\ Runs("snake_eat") => "move_snake" \in ran
       /\ Runs("grow_snake") => "snake_eat" \in ran
       /\ Runs("spawn_food") => "snake_eat" \in ran]_vars

\* The entities that are live once the frame's buffered commands are applied.
Survivors == {e \in Range(segments) \cup others : ~e.doomed}

\* C12: once game_over has handled a GameOverEvent and the frame's effects are
\* applied, the live positioned entities are the two segments of the fresh
\* snake and at most one food.
C12_ResetClearsBoard ==
    (FrameEnd /\ ~segments[1].live) =>
        /\ {e \in Survivors : e.kind # "food"} = Range(spawn_snake(arena))
        /\ Cardinality({e \in Survivors : e.kind = "food"}) <= 1

\* C13: when spawn_food handles a FoodEvent, generate_random_position fails
\* only if every cell of the arena holds a positioned entity; when a cell is
\* free it succeeds and the food is spawned on one of the free cells.
C13_PlacementFailsOnlyWhenFull ==
    [][(Runs("spawn_food") /\ foodEv) =>
        LET taken == {e.pos : e \in LiveEntities}
            free == AllCells(arena) \ taken
        IN  /\ panicked' => free = {}
            /\ free # {} =>
                /\ ~panicked'
                /\ \E position \in free : others' = others \cup {FoodEntity(position)}]_vars

\* The snake fills the arena, a FoodEvent was handled and the unwrap in
\* generate_random_position failed (no other unwrap can have: a head is live,
\* every listed segment is live and LastTailPosition is set).
C13_Witness ==
    /\ panicked
    /\ "spawn_food" \in ran
    /\ ~foodEv
    /\ LiveHeads # {}
    /\ \A i \in 1..Len(segments) : segments[i].live
    /\ lastTail # None
    /\ AllCells(arena) \subseteq {e.pos : e \in LiveEntities}

\* C14: on every movement tick the direction committed to the head is not the
\* opposite of the direction the head ran before the tick, and the head does
\* not move onto the pre-move cell of the second segment.
C14_NoReversal ==
    [][MoveTick =>
        /\ latest # get_opposite(segments[1].dir)
        /\ segments'[1].pos # segments[2].pos]_vars

\* The head's cell after the step is outside the arena or a cell the snake
\* held before the step.
HitAfterStep ==
    \/ OutOfArena(segments'[1].pos)
    \/ \E i \in 1..Len(segments) : segments'[1].pos = segments[i].pos

\* C15: a GameOverEvent is sent only by a movement tick whose new head cell is
\* outside the arena or in the pre-move snapshot of the snake; a tick onto an
\* in-bounds cell outside the snapshot sends none, and game_over resets
\* nothing without a GameOverEvent.
C15_GameOverOnlyOnHit ==
    [][/\ (~overEv /\ overEv') => (MoveTick /\ HitAfterStep)
       /\ (MoveTick /\ ~HitAfterStep) => overEv' = overEv
       /\ (Runs("game_over") /\ ~overEv) =>
            UNCHANGED <<segments, others, latest, foodEv>>]_vars

\* The first tick took the head Down from the centre onto a free cell of the
\* arena: no GameOverEvent is pending and the snake has not been respawned.
C15_Witness ==
    /\ ticks = 1
    /\ ~overEv
    /\ segments[1].live
    /\ segments[1].dir = "Down"
    /\ segments[1].pos = <<Center[1], Center[2] - 1>>
    /\ segments[2].pos = Center
    /\ "game_over" \in ran

C17_OneLiveHeadLeadsList ==
    [][(Runs("update_latest_state") \/ ticks' = ticks + 1) =>
        /\ Cardinality(LiveHeads) = 1
        /\ segments[1] \in LiveHeads
        /\ \A i \in 1..Len(segments) : segments[i].live]_vars

\* The foods spawned in the current frame: live once the frame's commands are
\* applied.
FoodToCome == {f \in others : f.kind = "food" /\ ~f.live /\ ~f.doomed}

\* C18: a FoodEvent is read by spawn_food only, which spawns a food for it, and
\* that food is live at the end of the frame, whatever else runs in the frame;
\* a frame that began without a live food ends with one, so no two frame ends
\* in a row are without a live food.
C18_FoodEventBringsFood ==
    [][/\ (foodEv /\ ~foodEv') => Runs("spawn_food")
       /\ (Runs("spawn_food") /\ foodEv /\ ~panicked') => FoodToCome' # {}
       /\ \A f \in FoodToCome : f \in others' \/ Flush(f) \in others'
       /\ (FrameEnd /\ LiveFood = {}) => FoodToCome # {}]_vars

\* A reset left a frame end without a live food; the next frame has run to its
\* end with the respawned snake still at the centre, and the food spawn_food
\* spawned in it is about to become live.
C18_Witness ==
    /\ FrameEnd
    /\ ticks >= 1
    /\ segments[1].live
    /\ segments[1].pos = Center
    /\ LiveFood = {}
    /\ FoodToCome # {}

\* C19: whenever grow_snake handles a GrowthEvent, LastTailPosition is not
\* None, so the unwrap does not fail, and it was recorded by a movement tick of
\* the game in progress, not before the last reset.
C19_GrowsAtFreshTail ==
    [][(Runs("grow_snake") /\ growthEv) =>
        /\ lastTail # None
        /\ ~panicked'
        /\ ~tailStale]_vars

Abs(v) == IF v >= 0 THEN v ELSE 0 - v

Manhattan(p, q) == Abs(Sub(p, q)[1]) + Abs(Sub(p, q)[2])

\* C20: at the end of every frame every two consecutive segments of the list
\* are on orthogonally adjacent cells (Manhattan distance 1).
C20_NeighboursAdjacent ==
    FrameEnd =>
        \A i \in 1..(Len(segments) - 1) :
            Manhattan(segments[i].pos, segments[i + 1].pos) = 1

====
